---- MODULE Spec2Model ----
(***************************************************************************)
(* Model of src/main.py (GM bot for Ink Chain): GMBot.run, the per-wallet  *)
(* retry loop, GMBot.send_gm_transaction with its chain-client calls, and  *)
(* the keyword classification of exception texts.                          *)
(*                                                                         *)
(* Texts (exception messages, private keys) are sequences of one-character *)
(* strings, so that lower-casing, prefix tests and substring search are    *)
(* computed as the code computes them.  Balances are counted in gwei.      *)
(***************************************************************************)
EXTENDS Integers, Sequences, FiniteSets, TLC

VARIABLES
    config,          \* self.config: max_retries, retry_delay, delay_between_wallets, wallets
    results,         \* self.results
    failed_wallets,  \* self.failed_wallets
    pc,              \* position of the single thread of control
    index,           \* run: enumerate index of the current wallet (0-based, -1 before the loop)
    attempt,         \* run: loop variable of range(1, max_retries + 1), 0 before the first
    success,         \* run: local `success`
    status,          \* run: local `status` (Unbound until the first assignment)
    error_message,   \* run: local `error_message`
    balance_eth,     \* send_gm_transaction: local `balance_eth` (<<gwei>>, or NoBalance)
    private_key,     \* send_gm_transaction: local `private_key` after prefix stripping
    receipt,         \* send_gm_transaction: <<status>> of the receipt (NoValue before it arrives)
    exc,             \* send_gm_transaction: text of the exception being handled
    ret,             \* value returned by send_gm_transaction / process_wallet
    raised,          \* exception that escaped run (Unbound when none)
    calls,           \* chain-client calls made by the current send_gm_transaction
    slept,           \* the time.sleep call run is in (NoValue when it is not sleeping)
    result_index,    \* for each entry of results, the wallet index it was recorded for
    summary,         \* the summary written by save_results (NoValue before)
    faults,          \* number of chain responses so far that made an attempt fail
    fault_budget,    \* number of such responses the chain may give during the run
    gas_price,       \* send_gm_transaction: local `gas_price` after line 252 (<<wei>>)
    gas_estimate,    \* estimate_gas: <<gas>> returned by w3.eth.estimate_gas (NoValue if it raised)
    transaction,     \* send_gm_transaction: <<local `transaction`>> (NoValue before line 257)
    failed_data,     \* the 'wallets' list save_results writes to the failed-wallets file
    cmsg,            \* classifier harness: the exception text under test
    cret,            \* classifier harness: the classifier's result (NoValue before)
    gas_in,          \* gas-policy harness: network price, ceiling (wei) and multiplier
    gas_out          \* gas-policy harness: the effective gas price (NoValue before)

vars == <<config, results, failed_wallets, pc, index, attempt, success, status,
          error_message, balance_eth, private_key, receipt, exc, ret, raised,
          calls, slept,
          result_index, summary, faults, fault_budget, gas_price, gas_estimate,
             transaction,
          failed_data, cmsg, cret, gas_in, gas_out>>

runVars == <<config, results, failed_wallets, pc, index, attempt, success, status,
             error_message, balance_eth, private_key, receipt, exc, ret, raised,
          calls, slept,
             result_index, summary, faults, fault_budget, gas_price, gas_estimate,
             transaction,
             failed_data>>

\* locals of send_gm_transaction that hold the transaction being prepared
txLocals == <<gas_price, gas_estimate, transaction>>

\* variables of the pure-function harnesses
harness == <<cmsg, cret, gas_in, gas_out>>

-----------------------------------------------------------------------------
(* Bounds *)

\* longest wallet list of a config
MaxWallets == 2
\* largest max_retries of a config
MaxRetries == 2
\* most words in an exception text given to the classifier
MaxWords == 2
\* most chain responses in one run that make an attempt fail (a raised
\* exception, a balance under the threshold, a reverted receipt)
MaxFaults == 2

-----------------------------------------------------------------------------
(* class WalletStatus *)

SUCCESS == "SUCCESS"
FAILED == "FAILED"
INSUFFICIENT_BALANCE == "INSUFFICIENT_BALANCE"
NETWORK_ERROR == "NETWORK_ERROR"
ALREADY_GMED == "ALREADY_GMED"
TIMEOUT == "TIMEOUT"
INVALID_CONTRACT == "INVALID_CONTRACT"

WalletStatus == {SUCCESS, FAILED, INSUFFICIENT_BALANCE, NETWORK_ERROR,
                 ALREADY_GMED, TIMEOUT, INVALID_CONTRACT}

None == "None"
Unbound == "Unbound"

\* the value None of `balance_eth`; a balance of b gwei is <<b>>
NoBalance == <<>>

\* a text, tuple or summary not assigned yet
NoValue == <<>>

-----------------------------------------------------------------------------
(* Texts *)

UpperChars == <<"A", "B", "C", "D", "E", "F", "G", "H", "I", "J", "K", "L", "M", "N", "O", "P", "Q", "R", "S", "T", "U", "V", "W", "X", "Y", "Z">>
LowerChars == <<"a", "b", "c", "d", "e", "f", "g", "h", "i", "j", "k", "l", "m", "n", "o", "p", "q", "r", "s", "t", "u", "v", "w", "x", "y", "z">>

\* str.lower() on one character
LowerChar(c) ==
    IF \E i \in 1..Len(UpperChars) : UpperChars[i] = c
    THEN LowerChars[CHOOSE i \in 1..Len(UpperChars) : UpperChars[i] = c]
    ELSE c

\* str.lower()
Lower(s) == [i \in 1..Len(s) |-> LowerChar(s[i])]

\* `sub in s`
Contains(s, sub) ==
    \E i \in 1..(Len(s) - Len(sub) + 1) : SubSeq(s, i, i + Len(sub) - 1) = sub

\* str.startswith
StartsWith(s, p) == Len(s) >= Len(p) /\ SubSeq(s, 1, Len(p)) = p

KW_insufficient_funds == <<"i", "n", "s", "u", "f", "f", "i", "c", "i", "e", "n", "t", " ", "f", "u", "n", "d", "s">>
KW_already == <<"a", "l", "r", "e", "a", "d", "y">>
KW_wait == <<"w", "a", "i", "t">>
KW_timeout == <<"t", "i", "m", "e", "o", "u", "t">>

\* the handler with the "timeout" test moved before the "already"/"wait" test
ClassifyError_TimeoutFirst(error_msg) ==
    IF Contains(Lower(error_msg), KW_insufficient_funds)
    THEN <<FALSE, INSUFFICIENT_BALANCE, error_msg>>
    ELSE IF Contains(Lower(error_msg), KW_timeout)
    THEN <<FALSE, TIMEOUT, error_msg>>
    ELSE IF Contains(Lower(error_msg), KW_already) \/ Contains(Lower(error_msg), KW_wait)
    THEN <<FALSE, ALREADY_GMED, error_msg>>
    ELSE <<FALSE, FAILED, error_msg>>

\* except-handler of send_gm_transaction: (success, status, message) for str(e)
ClassifyError(error_msg) ==
    IF Contains(Lower(error_msg), KW_insufficient_funds)
    THEN <<FALSE, INSUFFICIENT_BALANCE, error_msg>>
    ELSE IF Contains(Lower(error_msg), KW_already) \/ Contains(Lower(error_msg), KW_wait)
    THEN <<FALSE, ALREADY_GMED, error_msg>>
    ELSE IF Contains(Lower(error_msg), KW_timeout)
    THEN <<FALSE, TIMEOUT, error_msg>>
    ELSE <<FALSE, FAILED, error_msg>>

\* str(e) of the TypeError raised by f"{balance_eth:.6f}" when balance_eth is None
NoneFormatMsg == <<"u", "n", "s", "u", "p", "p", "o", "r", "t", "e", "d", " ", "f", "o", "r", "m", "a", "t", " ", "s", "t", "r", "i", "n", "g", " ", "p", "a", "s", "s", "e", "d", " ", "t", "o", " ", "N", "o", "n", "e", "T", "y", "p", "e", ".", "_", "_", "f", "o", "r", "m", "a", "t", "_", "_">>

\* exception texts the chain client raises in a run
RunErrorMsgs == { <<"I", "n", "s", "u", "f", "f", "i", "c", "i", "e", "n", "t", " ", "f", "u", "n", "d", "s", " ", "f", "o", "r", " ", "g", "a", "s">>,
                  <<"A", "l", "r", "e", "a", "d", "y", " ", "G", "M", " ", "t", "o", "d", "a", "y">>,
                  <<"R", "e", "a", "d", " ", "t", "i", "m", "e", "o", "u", "t">>,
                  <<"n", "o", "n", "c", "e", " ", "t", "o", "o", " ", "l", "o", "w">> }

-----------------------------------------------------------------------------
(* Balance threshold *)

\* min_balance = 0.0001 ETH, in gwei
MinBalanceGwei == 100000

\* balances the chain reports (gwei)
Balances == {MinBalanceGwei - 1, MinBalanceGwei, MinBalanceGwei + 1}

\* balance_eth < min_balance: a Decimal compared exactly with the double
\* 0.0001 = 0.000100000000000000004792..., which lies strictly between
\* MinBalanceGwei and MinBalanceGwei + 1 gwei
LessThanMinBalance(b) == b <= MinBalanceGwei

\* `if balance_eth is None:` alone, the threshold test dropped
BalanceCheckFails_NoneOnly(b) == b = NoBalance

\* the test of line 226
BalanceCheckFails(b) == b = NoBalance \/ LessThanMinBalance(b[1])

\* f"{x:.6f}" of a Decimal given in gwei: the number of 0.000001 units,
\* rounded half to even
Format6f(gwei) ==
    LET q == gwei \div 1000
        r == gwei % 1000
    IN  IF r > 500 \/ (r = 500 /\ q % 2 = 1) THEN q + 1 ELSE q

\* message of the insufficient-balance return (line 227)
BalanceMsg(b) ==
    <<"Balance: ", ToString(Format6f(b)), " ETH (min ",
      ToString(Format6f(MinBalanceGwei)), " ETH)">>

-----------------------------------------------------------------------------
(* Addresses, keys, wallets *)

\* Web3.to_checksum_address: defined on well-formed addresses only
ChecksumTable ==
    [a \in {<<"0", "x", "A", "b">>, <<"0", "x", "a", "b">>, <<"0", "x", "C", "d">>, <<"0", "x", "E", "f">>} |->
        IF a = <<"0", "x", "a", "b">> THEN <<"0", "x", "A", "b">> ELSE a]

IsAddress(a) == a \in DOMAIN ChecksumTable

\* lines 218-219
StripKeyPrefix(k) ==
    IF StartsWith(k, <<"0", "x">>) \/ StartsWith(k, <<"0", "X">>) THEN SubSeq(k, 3, Len(k)) ELSE k

WalletA == [address |-> <<"0", "x", "A", "b">>, private_key |-> <<"0", "x", "1", "f">>, proxy |-> None]
WalletB == [address |-> <<"0", "x", "C", "d">>, private_key |-> <<"2", "e">>, proxy |-> "http://p"]
WalletBad == [address |-> <<"0", "x", ".", ".", ".">>, private_key |-> <<"0", "X", "3", "d">>, proxy |-> None]

WalletC == [address |-> <<"0", "x", "E", "f">>, private_key |-> <<"0", "x", "4", "c">>, proxy |-> None]

\* a second entry for the address of WalletA, written in lower case
WalletALower == [address |-> <<"0", "x", "a", "b">>, private_key |-> <<"5", "a">>, proxy |-> "http://q"]

WalletPool == {WalletA, WalletB, WalletBad}

RECURSIVE SeqsUpTo(_, _)
SeqsUpTo(S, n) ==
    IF n = 0 THEN { <<>> }
    ELSE LET shorter == SeqsUpTo(S, n - 1)
         IN  shorter \cup { Append(s, x) : s \in { t \in shorter : Len(t) = n - 1 }, x \in S }

\* wallet lists, up to renaming of the two well-formed wallets: WalletB is
\* listed only after WalletA
WalletLists ==
    { w \in SeqsUpTo(WalletPool, MaxWallets) :
        \A i \in 1..Len(w) : w[i] = WalletB => \E j \in 1..(i - 1) : w[j] = WalletA }

DelayConfigs == { [enabled |-> FALSE, min_seconds |-> 1, max_seconds |-> 2],
                  [enabled |-> TRUE, min_seconds |-> 1, max_seconds |-> 2] }

RetryDelays == { 5 }

\* the configurations of Spec: every wallet list and retry count, with the delay
\* between wallets enabled (ScenarioConfigs has the other delay settings)
Configs ==
    [ max_retries : 0..MaxRetries,
      retry_delay : RetryDelays,
      delay_between_wallets : { d \in DelayConfigs : d.enabled },
      max_gas_price : {50},
      gas_price_multiplier : {<<11, 10>>},
      wallets : WalletLists ]

\* failing chain responses of a scenario run
MaxScenarioFaults == 3

\* three wallets and two attempts each: without a delay between wallets, with a
\* fixed delay (min = max), and with a delay drawn from a range
ThreeWalletConfigs ==
    [ max_retries : {2},
      retry_delay : RetryDelays,
      delay_between_wallets : DelayConfigs \cup
                              { [enabled |-> TRUE, min_seconds |-> 3, max_seconds |-> 3] },
      max_gas_price : {50},
      gas_price_multiplier : {<<11, 10>>},
      wallets : { <<WalletA, WalletB, WalletC>> } ]

\* one wallet and one attempt more than a run of Configs has
ManyRetriesConfigs ==
    [ max_retries : {MaxRetries + 1},
      retry_delay : RetryDelays,
      delay_between_wallets : { d \in DelayConfigs : ~d.enabled },
      max_gas_price : {50},
      gas_price_multiplier : {<<11, 10>>},
      wallets : { <<WalletA>> } ]

\* two entries with the same address up to letter case
SameAddressConfigs ==
    [ max_retries : {1},
      retry_delay : RetryDelays,
      delay_between_wallets : { d \in DelayConfigs : ~d.enabled },
      max_gas_price : {50},
      gas_price_multiplier : {<<11, 10>>},
      wallets : { <<WalletA, WalletALower>>, <<WalletALower, WalletA>> } ]

ScenarioConfigs == ThreeWalletConfigs \cup ManyRetriesConfigs \cup SameAddressConfigs

-----------------------------------------------------------------------------
(* Transaction hash and receipt *)

tx_hash_hex == "0xfeed"

\* the receipt is not inspected, every mined transaction counts as a success
ReceiptResult_IgnoresStatus(receipt_status) == <<TRUE, SUCCESS, <<"TX: ", tx_hash_hex>> >>

\* lines 287-292
ReceiptResult(receipt_status) ==
    IF receipt_status = 1
    THEN <<TRUE, SUCCESS, <<"TX: ", tx_hash_hex>> >>
    ELSE <<FALSE, FAILED, <<"reverted. TX: ", tx_hash_hex>> >>

ReceiptStatuses == {0, 1}

\* a pre-check that reports a cooldown of one hour
check_can_gm_Cooldown(address) == <<FALSE, 3600>>

\* check_can_gm
check_can_gm(address) == <<TRUE, 0>>

-----------------------------------------------------------------------------
(* Gas price and gas limit *)

\* gas_price_multiplier values as <<numerator, denominator>>: 1.1 (the default), 1.15, 1.5, 1
Multipliers == { <<11, 10>>, <<23, 20>>, <<3, 2>>, <<1, 1>> }

\* the integers x in 0..400 for which the double-precision product x * m lies
\* below the integer x * m[1] / m[2]: the double nearest to 1.15 is below 1.15, and
\* for these x the rounded product stays below the integer (100 * 1.15 is
\* 114.99999999999999); for 1.1, 1.5 and 1 the rounded product is never below
RoundsBelow(m) ==
    IF m = <<23, 20>> THEN {100, 180, 200, 220, 340, 360, 380, 400} ELSE {}

\* int(x * m) of line 252 for an integer x and a float m, for x in 0..400
IntOfProduct(x, m) ==
    IF x \in RoundsBelow(m) THEN (x * m[1]) \div m[2] - 1 ELSE (x * m[1]) \div m[2]

\* lines 246-248
CapGasPrice(network_price, max_gas_price) ==
    IF network_price > max_gas_price THEN max_gas_price ELSE network_price

\* lines 240-252: the ceiling, then the multiplier, then int()
EffectiveGasPrice(network_price, max_gas_price, multiplier) ==
    IntOfProduct(CapGasPrice(network_price, max_gas_price), multiplier)

\* w3.eth.gas_price values met by a run, in wei
NetworkGasPrices == {40, 60}

\* 'gas' of the transaction as built at line 259, and the fallback of line 210
DefaultGas == 100000

\* the estimate used as it is, without the 20% margin
GasWithMargin_NoMargin(gas) == gas

\* int(gas_estimate * 1.2) of line 207: the double product truncates to
\* floor(6 * gas_estimate / 5) for every estimate up to 30,000,000
GasWithMargin(gas) == (gas * 6) \div 5

\* w3.eth.estimate_gas values met by a run
GasEstimates == {21001}

\* network prices of the gas-policy harness, in wei
MaxGasPrice == 100

\* to_wei(max_gas_price_gwei, 'gwei') values of the gas-policy harness, in wei
Ceilings == {50, 120}

GasInputs == [price : 0..MaxGasPrice, ceiling : Ceilings, multiplier : Multipliers]

-----------------------------------------------------------------------------
(* Classifier harness inputs *)

Words == { <<"I", "n", "s", "u", "f", "f", "i", "c", "i", "e", "n", "t", " ", "f", "u", "n", "d", "s">>, <<"i", "n", "s", "u", "f", "f", "i", "c", "i", "e", "n", "t", "f", "u", "n", "d", "s">>, <<"A", "L", "R", "E", "A", "D", "Y">>,
           <<"a", "W", "a", "i", "t">>, <<" ", "T", "i", "m", "e", "O", "u", "t">>, <<"t", "i", "m", "e", " ", "o", "u", "t">>, <<" ", "n", "o", "n", "c", "e", " ", "t", "o", "o", " ", "l", "o", "w">> }

RECURSIVE Concat(_)
Concat(ws) == IF ws = <<>> THEN <<>> ELSE Head(ws) \o Concat(Tail(ws))

ClassifyMsgs == { Concat(ws) : ws \in SeqsUpTo(Words, MaxWords) }

-----------------------------------------------------------------------------
(* State after construction of GMBot *)

HarnessIdle == cmsg = NoValue /\ cret = NoValue /\ gas_in = NoValue /\ gas_out = NoValue

Init ==
    /\ config \in Configs
    /\ results = <<>>
    /\ failed_wallets = <<>>
    /\ pc = "for_wallet"
    /\ index = -1
    /\ attempt = 0
    /\ success = FALSE
    /\ status = Unbound
    /\ error_message = NoValue
    /\ balance_eth = NoBalance
    /\ private_key = NoValue
    /\ receipt = NoValue
    /\ exc = NoValue
    /\ ret = NoValue
    /\ raised = Unbound
    /\ calls = {}
    /\ slept = NoValue
    /\ result_index = <<>>
    /\ summary = NoValue
    /\ faults = 0
    /\ fault_budget = MaxFaults
    /\ gas_price = NoValue
    /\ gas_estimate = NoValue
    /\ transaction = NoValue
    /\ failed_data = NoValue
    /\ HarnessIdle

\* reversed(self.config['wallets']): the last configured wallet first
wallet_data_Reversed == config.wallets[Len(config.wallets) - index]

\* the loop variable of line 333
wallet_data == config.wallets[index + 1]
address == wallet_data.address

-----------------------------------------------------------------------------
(* GMBot.run: the wallet loop *)

\* `if delay_enabled:` alone, the first wallet is delayed too
ShouldDelay_EveryWallet(enabled, i) == enabled

\* the test of line 338
ShouldDelay(enabled, i) == enabled /\ i > 0

\* `for index, wallet_data in enumerate(...)` with the inter-wallet delay (lines 333-341)
NextWallet ==
    /\ pc = "for_wallet"
    /\ index + 1 < Len(config.wallets)
    /\ index' = index + 1
    /\ success' = FALSE
    /\ attempt' = 0
    /\ IF ShouldDelay(config.delay_between_wallets.enabled, index')
       THEN \E delay \in config.delay_between_wallets.min_seconds ..
                         config.delay_between_wallets.max_seconds :
               slept' = [kind |-> "wallet", seconds |-> delay]
       ELSE slept' = slept
    /\ pc' = "for_attempt"
    /\ UNCHANGED <<config, private_key, receipt, results, failed_wallets, status,
                   error_message, balance_eth, exc, ret, raised, calls, result_index,
                   summary, faults, txLocals, failed_data, fault_budget, harness>>

\* range(1, max_retries + 2): one attempt too many
RangeHasNext_OffByOne(a, max_retries) == a <= max_retries

\* range(1, max_retries + 1) has a next value after `attempt`
RangeHasNext(a, max_retries) == a < max_retries

\* `for attempt in range(1, max_retries + 1)` and the call of process_wallet (lines 343-344),
\* reached when the sleep of line 341 or 363, if any, is over
NextAttempt ==
    /\ pc = "for_attempt"
    /\ IF RangeHasNext(attempt, config.max_retries)
       THEN /\ attempt' = attempt + 1
            /\ pc' = "send"
       ELSE /\ attempt' = attempt
            /\ pc' = "after_attempts"
    /\ slept' = NoValue
    /\ UNCHANGED <<config, private_key, receipt, results, failed_wallets, index,
                   success, status, error_message, balance_eth, exc, ret, raised, calls,
                   result_index, summary, faults, txLocals, failed_data, fault_budget,
                   harness>>

-----------------------------------------------------------------------------
(* GMBot.send_gm_transaction *)

\* lines 214-219, outside the try block
SendStart ==
    /\ pc = "send"
    /\ IF IsAddress(address)
       THEN /\ private_key' = StripKeyPrefix(wallet_data.private_key)
            /\ pc' = "check_balance"
            /\ raised' = raised
       ELSE /\ private_key' = private_key
            /\ pc' = "raised"
            /\ raised' = "InvalidAddress"
    /\ UNCHANGED <<config, receipt, results, failed_wallets, index, attempt, success,
                   status, error_message, balance_eth, exc, ret, calls, slept,
                   result_index, summary, faults, txLocals, failed_data, fault_budget,
                   harness>>

\* check_balance (lines 183-190) called at line 223: the chain client returns a balance
CheckBalance ==
    /\ pc = "check_balance"
    /\ \E b \in Balances :
          /\ balance_eth' = <<b>>
          /\ IF BalanceCheckFails(<<b>>)
             THEN faults < fault_budget /\ faults' = faults + 1
             ELSE faults' = faults
    /\ calls' = calls \cup {"get_balance"}
    /\ pc' = "balance_test"
    /\ UNCHANGED <<config, private_key, receipt, results, failed_wallets, index,
                   attempt, success, status, error_message, exc, ret, raised, slept,
                   result_index, summary, txLocals, failed_data, fault_budget, harness>>

\* check_balance (lines 191-193): the chain client raises, check_balance returns None
CheckBalanceRaises ==
    /\ pc = "check_balance"
    /\ faults < fault_budget
    /\ faults' = faults + 1
    /\ balance_eth' = NoBalance
    /\ calls' = calls \cup {"get_balance"}
    /\ pc' = "balance_test"
    /\ UNCHANGED <<config, private_key, receipt, results, failed_wallets, index,
                   attempt, success, status, error_message, exc, ret, raised, slept,
                   result_index, summary, txLocals, failed_data, fault_budget, harness>>

\* lines 224-227
BalanceTest ==
    /\ pc = "balance_test"
    /\ IF BalanceCheckFails(balance_eth)
       THEN IF balance_eth = NoBalance
            THEN /\ exc' = NoneFormatMsg
                 /\ ret' = ret
                 /\ pc' = "except"
            ELSE /\ ret' = <<FALSE, INSUFFICIENT_BALANCE, BalanceMsg(balance_eth[1])>>
                 /\ exc' = exc
                 /\ pc' = "returned"
       ELSE /\ pc' = "can_gm"
            /\ UNCHANGED <<exc, ret>>
    /\ UNCHANGED <<config, private_key, receipt, results, failed_wallets, index,
                   attempt, success, status, error_message, balance_eth, raised, calls,
                   slept, result_index, summary, faults, txLocals, failed_data,
                   fault_budget, harness>>

\* lines 229-234
CanGm ==
    /\ pc = "can_gm"
    /\ LET r == check_can_gm(ChecksumTable[address])
       IN  IF ~r[1]
           THEN /\ ret' = <<FALSE, ALREADY_GMED,
                            <<"Next GM in ", ToString(r[2] \div 3600), "h ",
                              ToString((r[2] % 3600) \div 60), "m">> >>
                /\ pc' = "returned"
           ELSE /\ ret' = ret
                /\ pc' = "nonce"
    /\ UNCHANGED <<config, private_key, receipt, results, failed_wallets, index,
                   attempt, success, status, error_message, balance_eth, exc, raised,
                   calls, slept, result_index, summary, faults, txLocals, failed_data,
                   fault_budget, harness>>

\* one call that either returns or raises an exception caught at line 294
CallReturns(from, call, to) ==
    /\ pc = from
    /\ calls' = calls \cup {call}
    /\ pc' = to
    /\ UNCHANGED <<config, private_key, receipt, results, failed_wallets, index,
                   attempt, success, status, error_message, balance_eth, exc, ret,
                   raised, slept, result_index, summary, faults, txLocals, failed_data,
                   fault_budget, harness>>

\* the handler of lines 294-306 reads none of the locals of the try block
CallRaises(from, call) ==
    /\ pc = from
    /\ calls' = calls \cup {call}
    /\ faults < fault_budget
    /\ faults' = faults + 1
    /\ \E m \in RunErrorMsgs : exc' = m
    /\ pc' = "except"
    /\ gas_price' = NoValue
    /\ gas_estimate' = NoValue
    /\ transaction' = NoValue
    /\ UNCHANGED <<config, private_key, receipt, results, failed_wallets, index,
                   attempt, success, status, error_message, balance_eth, ret, raised,
                   slept, result_index, summary, failed_data, fault_budget, harness>>

\* line 237
GetNonce == CallReturns("nonce", "get_transaction_count", "gas_price")
GetNonceRaises == CallRaises("nonce", "get_transaction_count")

\* lines 240-254: config.max_gas_price is to_wei(max_gas_price_gwei, 'gwei')
GasPrice ==
    /\ pc = "gas_price"
    /\ calls' = calls \cup {"gas_price"}
    /\ \E network_price \in NetworkGasPrices :
          gas_price' = <<EffectiveGasPrice(network_price, config.max_gas_price,
                                           config.gas_price_multiplier)>>
    /\ pc' = "build"
    /\ UNCHANGED <<config, private_key, receipt, results, failed_wallets, index,
                   attempt, success, status, error_message, balance_eth, exc, ret,
                   raised, slept, result_index, summary, faults, gas_estimate,
                   transaction, failed_data, fault_budget, harness>>
GasPriceRaises == CallRaises("gas_price", "gas_price")

\* lines 257-263
BuildTransaction ==
    /\ pc = "build"
    /\ calls' = calls \cup {"build_transaction"}
    /\ transaction' = << [from |-> ChecksumTable[address], gas |-> DefaultGas,
                          gasPrice |-> gas_price[1]] >>
    /\ pc' = "estimate"
    /\ UNCHANGED <<config, private_key, receipt, results, failed_wallets, index,
                   attempt, success, status, error_message, balance_eth, exc, ret,
                   raised, slept, result_index, summary, faults, gas_price,
                   gas_estimate, failed_data, fault_budget, harness>>
BuildTransactionRaises == CallRaises("build", "build_transaction")

\* estimate_gas (lines 202-210) and lines 266-269: a failed estimate falls back, it never raises
EstimateGas ==
    /\ pc = "estimate"
    /\ calls' = calls \cup {"estimate_gas"}
    /\ \/ \E gas \in GasEstimates :
             /\ gas_estimate' = <<gas>>
             /\ transaction' = << [transaction[1] EXCEPT !.gas = GasWithMargin(gas)] >>
       \/ /\ gas_estimate' = NoValue
          /\ transaction' = << [transaction[1] EXCEPT !.gas = DefaultGas] >>
    /\ pc' = "sign"
    /\ UNCHANGED <<config, private_key, receipt, results, failed_wallets, index,
                   attempt, success, status, error_message, balance_eth, exc, ret,
                   raised, slept, result_index, summary, faults, gas_price, failed_data,
                   fault_budget, harness>>

\* lines 272-273
SignTransaction == CallReturns("sign", "sign_transaction", "broadcast")
SignTransactionRaises == CallRaises("sign", "sign_transaction")

\* lines 277-281
Broadcast == CallReturns("broadcast", "send_raw_transaction", "wait")

\* a failed broadcast repeated inside the call
BroadcastRaises_Resend == CallReturns("broadcast", "send_raw_transaction", "broadcast")

\* line 277: the broadcast raises
BroadcastRaises == CallRaises("broadcast", "send_raw_transaction")

\* lines 285-292
WaitReceipt ==
    /\ pc = "wait"
    /\ calls' = calls \cup {"wait_for_transaction_receipt"}
    /\ \E receipt_status \in ReceiptStatuses :
          /\ receipt' = <<receipt_status>>
          /\ ret' = ReceiptResult(receipt_status)
          /\ IF receipt_status = 1
             THEN faults' = faults
             ELSE faults < fault_budget /\ faults' = faults + 1
    /\ pc' = "returned"
    /\ gas_price' = NoValue
    /\ gas_estimate' = NoValue
    /\ transaction' = NoValue
    /\ UNCHANGED <<config, private_key, results, failed_wallets, index, attempt,
                   success, status, error_message, balance_eth, exc, raised, slept,
                   result_index, summary, failed_data, fault_budget, harness>>

WaitReceiptRaises == CallRaises("wait", "wait_for_transaction_receipt")

\* text of the TimeExhausted exception that web3's wait_for_transaction_receipt
\* raises when timeout=120 elapses without a receipt
TimeExhaustedMsg ==
    <<"T", "r", "a", "n", "s", "a", "c", "t", "i", "o", "n", " ", "H", "e", "x", "B", "y", "t", "e", "s", "(", "'", "0", "x", "f", "e", "e", "d", "'", ")", " ", "i", "s", " ", "n", "o", "t", " ", "i", "n", " ", "t", "h", "e", " ", "c", "h", "a", "i", "n", " ", "a", "f", "t", "e", "r", " ", "1", "2", "0", " ", "s", "e", "c", "o", "n", "d", "s">>

\* line 285: the 120 seconds elapse without a receipt
WaitReceiptTimesOut ==
    /\ pc = "wait"
    /\ calls' = calls \cup {"wait_for_transaction_receipt"}
    /\ faults < fault_budget
    /\ faults' = faults + 1
    /\ exc' = TimeExhaustedMsg
    /\ pc' = "except"
    /\ gas_price' = NoValue
    /\ gas_estimate' = NoValue
    /\ transaction' = NoValue
    /\ UNCHANGED <<config, private_key, receipt, results, failed_wallets, index,
                   attempt, success, status, error_message, balance_eth, ret, raised,
                   slept, result_index, summary, failed_data, fault_budget, harness>>

\* lines 294-306
Except ==
    /\ pc = "except"
    /\ ret' = ClassifyError(exc)
    /\ pc' = "returned"
    /\ UNCHANGED <<config, private_key, receipt, results, failed_wallets, index,
                   attempt, success, status, error_message, balance_eth, exc, raised,
                   calls, slept, result_index, summary, faults, txLocals, failed_data,
                   fault_budget, harness>>

-----------------------------------------------------------------------------
(* GMBot.run: recording a result, retrying, the failed list, the summary *)

\* `if success:` alone, AlreadySubmittedToday is retried
ShouldBreak_SuccessOnly(succ, st) == succ

\* the test of line 356
ShouldBreak(succ, st) == succ \/ st = ALREADY_GMED

\* no test: run sleeps after the last attempt too
ShouldSleep_Always(a, max_retries) == TRUE

\* the test of line 360
ShouldSleep(a, max_retries) == a < max_retries

\* self.results.insert(0, ...): the newest result first
AppendResult_Prepend(log, r) == <<r>> \o log

\* self.results.append of lines 347-354
AppendResult(log, r) == Append(log, r)

\* lines 344-363: unpack the result, append it, then break or sleep before the next attempt
RecordResult ==
    /\ pc = "returned"
    /\ success' = ret[1]
    /\ status' = ret[2]
    /\ error_message' = ret[3]
    /\ results' = AppendResult(results, [address |-> address, attempt |-> attempt,
                                         status |-> ret[2], message |-> ret[3]])
    /\ result_index' = Append(result_index, index)
    /\ IF ShouldBreak(ret[1], ret[2])
       THEN /\ pc' = "after_attempts"
            /\ slept' = slept
       ELSE /\ pc' = "for_attempt"
            /\ IF ShouldSleep(attempt, config.max_retries)
               THEN slept' = [kind |-> "retry", seconds |-> config.retry_delay]
               ELSE slept' = slept
    /\ balance_eth' = NoBalance
    /\ private_key' = NoValue
    /\ receipt' = NoValue
    /\ exc' = NoValue
    /\ ret' = NoValue
    /\ calls' = {}
    /\ UNCHANGED <<config, failed_wallets, index, attempt, raised, summary, faults,
                   txLocals, failed_data, fault_budget, harness>>

\* `if not success:` alone, AlreadySubmittedToday counts as failed
IsFailedWallet_NotSuccess(succ, st) == ~succ

\* the test of line 365
IsFailedWallet(succ, st) == ~succ /\ st # ALREADY_GMED

\* lines 365-370; `status` is unbound when the attempt loop never ran
AfterAttempts ==
    /\ pc = "after_attempts"
    /\ IF status = Unbound
       THEN /\ raised' = "UnboundLocalError"
            /\ pc' = "raised"
            /\ failed_wallets' = failed_wallets
       ELSE /\ raised' = raised
            /\ pc' = "for_wallet"
            /\ IF IsFailedWallet(success, status)
               THEN failed_wallets' = Append(failed_wallets,
                        [address |-> address, last_status |-> status,
                         last_error |-> error_message])
               ELSE failed_wallets' = failed_wallets
    /\ UNCHANGED <<config, private_key, receipt, results, index, attempt, success,
                   status, error_message, balance_eth, exc, ret, calls, slept,
                   result_index, summary, faults, txLocals, failed_data, fault_budget,
                   harness>>

\* len(self.results): every logged attempt counted, whatever its status
CountStatus_AllResults(rs, st) == Len(rs)

\* number of entries of a sequence satisfying a status
CountStatus(rs, st) == Cardinality({ k \in 1..Len(rs) : rs[k].status = st })

\* 'failed' counts the failed attempts of the log, not the failed wallets
Summary_FailedAttempts ==
    [ total |-> Len(config.wallets),
      successful |-> CountStatus(results, SUCCESS),
      already_gmed |-> CountStatus(results, ALREADY_GMED),
      failed |-> Len(results) - CountStatus(results, SUCCESS)
                              - CountStatus(results, ALREADY_GMED) ]

\* the summary of print_summary (lines 381-384) and save_results (lines 408-413)
Summary ==
    [ total |-> Len(config.wallets),
      successful |-> CountStatus(results, SUCCESS),
      already_gmed |-> CountStatus(results, ALREADY_GMED),
      failed |-> Len(failed_wallets) ]

\* lines 428-438: the first wallet of the config whose lower-cased address is that
\* of the failed record, with the record's last error and status
EnrichFailed(failed, wallets) ==
    LET matches == { k \in 1..Len(wallets) :
                        Lower(wallets[k].address) = Lower(failed.address) }
    IN  IF matches = {} THEN <<>>
        ELSE LET wallet == wallets[CHOOSE k \in matches : \A l \in matches : k <= l]
             IN  << [address |-> wallet.address,
                     private_key |-> wallet.private_key,
                     proxy |-> wallet.proxy,
                     last_error |-> failed.last_error,
                     last_status |-> failed.last_status] >>

\* lines 427-438: failed_data['wallets']
RECURSIVE EnrichedWallets(_, _)
EnrichedWallets(fw, wallets) ==
    IF fw = <<>> THEN <<>>
    ELSE EnrichFailed(Head(fw), wallets) \o EnrichedWallets(Tail(fw), wallets)

\* lines 418-441: the failed-wallets file, written only when a wallet failed
FailedData ==
    IF failed_wallets = <<>> THEN NoValue
    ELSE [count |-> Len(failed_wallets),
          wallets |-> EnrichedWallets(failed_wallets, config.wallets)]

\* lines 372-373, after the wallet loop: print_summary and save_results
Finish ==
    /\ pc = "for_wallet"
    /\ ~(index + 1 < Len(config.wallets))
    /\ summary' = Summary
    /\ failed_data' = FailedData
    /\ pc' = "done"
    /\ UNCHANGED <<config, private_key, receipt, results, failed_wallets, index,
                   attempt, success, status, error_message, balance_eth, exc, ret,
                   raised, calls, slept, result_index, faults, txLocals, fault_budget,
                   harness>>

Next ==
    \/ NextWallet
    \/ NextAttempt
    \/ SendStart
    \/ CheckBalance
    \/ CheckBalanceRaises
    \/ BalanceTest
    \/ CanGm
    \/ GetNonce
    \/ GetNonceRaises
    \/ GasPrice
    \/ GasPriceRaises
    \/ BuildTransaction
    \/ BuildTransactionRaises
    \/ EstimateGas
    \/ SignTransaction
    \/ SignTransactionRaises
    \/ Broadcast
    \/ BroadcastRaises
    \/ WaitReceipt
    \/ WaitReceiptRaises
    \/ WaitReceiptTimesOut
    \/ Except
    \/ RecordResult
    \/ AfterAttempts
    \/ Finish

Spec == Init /\ [][Next]_vars

\* the run is a single thread that takes its next step whenever it has one
FairSpec == Spec /\ WF_vars(Next)

\* a run over three wallets
ScenarioInit ==
    /\ config \in ScenarioConfigs
    /\ results = <<>>
    /\ failed_wallets = <<>>
    /\ pc = "for_wallet"
    /\ index = -1
    /\ attempt = 0
    /\ success = FALSE
    /\ status = Unbound
    /\ error_message = NoValue
    /\ balance_eth = NoBalance
    /\ private_key = NoValue
    /\ receipt = NoValue
    /\ exc = NoValue
    /\ ret = NoValue
    /\ raised = Unbound
    /\ calls = {}
    /\ slept = NoValue
    /\ result_index = <<>>
    /\ summary = NoValue
    /\ faults = 0
    /\ fault_budget = MaxScenarioFaults
    /\ gas_price = NoValue
    /\ gas_estimate = NoValue
    /\ transaction = NoValue
    /\ failed_data = NoValue
    /\ HarnessIdle

ScenarioSpec == ScenarioInit /\ [][Next]_vars

-----------------------------------------------------------------------------
(* The classifier applied to exception texts *)

ClassifyInit ==
    /\ config = [max_retries |-> 0, retry_delay |-> 0,
                 delay_between_wallets |-> [enabled |-> FALSE, min_seconds |-> 0,
                                            max_seconds |-> 0],
                 max_gas_price |-> 50, gas_price_multiplier |-> <<11, 10>>,
                 wallets |-> <<>>]
    /\ results = <<>>
    /\ failed_wallets = <<>>
    /\ pc = "classify"
    /\ index = -1
    /\ attempt = 0
    /\ success = FALSE
    /\ status = Unbound
    /\ error_message = NoValue
    /\ balance_eth = NoBalance
    /\ private_key = NoValue
    /\ receipt = NoValue
    /\ exc = NoValue
    /\ ret = NoValue
    /\ raised = Unbound
    /\ calls = {}
    /\ slept = NoValue
    /\ result_index = <<>>
    /\ summary = NoValue
    /\ faults = 0
    /\ fault_budget = 0
    /\ gas_price = NoValue
    /\ gas_estimate = NoValue
    /\ transaction = NoValue
    /\ failed_data = NoValue
    /\ cmsg \in ClassifyMsgs
    /\ cret = NoValue
    /\ gas_in = NoValue
    /\ gas_out = NoValue

\* lines 294-306 applied to cmsg
Classify ==
    /\ pc = "classify"
    /\ cret = NoValue
    /\ cret' = ClassifyError(cmsg)
    /\ UNCHANGED <<runVars, cmsg, gas_in, gas_out>>

ClassifyNext == Classify

ClassifySpec == ClassifyInit /\ [][ClassifyNext]_vars

-----------------------------------------------------------------------------
(* The gas-price policy applied to network prices, ceilings and multipliers *)

GasInit ==
    /\ config = [max_retries |-> 0, retry_delay |-> 0,
                 delay_between_wallets |-> [enabled |-> FALSE, min_seconds |-> 0,
                                            max_seconds |-> 0],
                 max_gas_price |-> 50, gas_price_multiplier |-> <<11, 10>>,
                 wallets |-> <<>>]
    /\ results = <<>>
    /\ failed_wallets = <<>>
    /\ pc = "gas_policy"
    /\ index = -1
    /\ attempt = 0
    /\ success = FALSE
    /\ status = Unbound
    /\ error_message = NoValue
    /\ balance_eth = NoBalance
    /\ private_key = NoValue
    /\ receipt = NoValue
    /\ exc = NoValue
    /\ ret = NoValue
    /\ raised = Unbound
    /\ calls = {}
    /\ slept = NoValue
    /\ result_index = <<>>
    /\ summary = NoValue
    /\ faults = 0
    /\ fault_budget = 0
    /\ gas_price = NoValue
    /\ gas_estimate = NoValue
    /\ transaction = NoValue
    /\ failed_data = NoValue
    /\ cmsg = NoValue
    /\ cret = NoValue
    /\ gas_in \in GasInputs
    /\ gas_out = NoValue

\* lines 240-252 applied to gas_in
GasPolicy ==
    /\ pc = "gas_policy"
    /\ gas_out = NoValue
    /\ gas_out' = <<EffectiveGasPrice(gas_in.price, gas_in.ceiling, gas_in.multiplier)>>
    /\ UNCHANGED <<runVars, cmsg, cret, gas_in>>

GasNext == GasPolicy

GasSpec == GasInit /\ [][GasNext]_vars

-----------------------------------------------------------------------------
(* The results log read per wallet entry *)

WalletIndices == 0..(Len(config.wallets) - 1)

\* positions of the results recorded for the wallet entry at index i
PositionsOf(i) == { k \in 1..Len(results) : result_index[k] = i }

\* the results recorded for the wallet entry at index i, in log order
ResultsOf(i) ==
    LET keep[k \in 0..Len(results)] ==
            IF k = 0 THEN <<>>
            ELSE IF result_index[k] = i THEN Append(keep[k - 1], results[k])
            ELSE keep[k - 1]
    IN  keep[Len(results)]

NonRetryStatuses == {SUCCESS, ALREADY_GMED}
FailedClass == {FAILED, INSUFFICIENT_BALANCE, NETWORK_ERROR, TIMEOUT, INVALID_CONTRACT}

\* the outcome of the last attempt recorded for the wallet entry at index i
FinalResult(i) == LET r == ResultsOf(i) IN r[Len(r)]

-----------------------------------------------------------------------------
(* Properties *)

\* C1: for every wallet entry the number of recorded AttemptResults never
\* exceeds max_retries and their attempt numbers are 1, 2, ..., k in log order.
C1_AttemptsBoundedContiguous ==
    \A i \in WalletIndices :
        LET r == ResultsOf(i)
        IN  /\ Len(r) <= config.max_retries
            /\ \A n \in 1..Len(r) :
                  /\ r[n].attempt = n
                  /\ r[n].address = config.wallets[i + 1].address

C1_Witness ==
    /\ pc = "done"
    /\ config.max_retries = MaxRetries
    /\ \E i \in WalletIndices : Len(ResultsOf(i)) = config.max_retries
    /\ \E i \in WalletIndices : Len(ResultsOf(i)) = 1

\* C2: once an attempt of a wallet entry returned Success or
\* AlreadySubmittedToday, that result is the last one logged for the entry, and
\* while the entry is current the run is not inside send_gm_transaction, makes
\* no chain call and sleeps no retry delay.
C2_NoAttemptAfterNonRetryOutcome ==
    /\ \A k \in 1..Len(results) :
          /\ k < Len(results) => result_index[k] <= result_index[k + 1]
          /\ results[k].status \in NonRetryStatuses =>
                (k = Len(results) \/ result_index[k + 1] # result_index[k])
    /\ (\E k \in PositionsOf(index) : results[k].status \in NonRetryStatuses) =>
          /\ pc \in {"after_attempts", "for_wallet", "done"}
          /\ calls = {}
          /\ slept = NoValue

C2_Witness ==
    /\ pc = "done"
    /\ \E k \in 1..Len(results) :
          /\ results[k].status = ALREADY_GMED
          /\ results[k].attempt < config.max_retries
          /\ k < Len(results)

\* the failed list the log determines: one record per wallet entry whose final
\* outcome is in the failed class, in list order
RECURSIVE ExpectedFailed(_)
ExpectedFailed(n) ==
    IF n = 0 THEN <<>>
    ELSE LET final == FinalResult(n - 1)
         IN  IF final.status \in FailedClass
             THEN Append(ExpectedFailed(n - 1),
                         [address |-> config.wallets[n].address,
                          last_status |-> final.status,
                          last_error |-> final.message])
             ELSE ExpectedFailed(n - 1)

\* C3: after run finishes, failed_wallets holds exactly the wallet entries whose
\* final attempt outcome is neither Success nor AlreadySubmittedToday, once per
\* listing.
C3_FailedIffFinalOutcomeFailed ==
    pc = "done" =>
        /\ \A i \in WalletIndices :
              FinalResult(i).status \in FailedClass <=>
                  FinalResult(i).status \notin NonRetryStatuses
        /\ failed_wallets = ExpectedFailed(Len(config.wallets))

C3_Witness ==
    /\ pc = "done"
    /\ Len(config.wallets) = 2
    /\ Len(failed_wallets) = 1
    /\ failed_wallets[1].address = config.wallets[2].address
    /\ FinalResult(0).status = ALREADY_GMED

\* C4: every wallet entry ends the run with at least one attempt and a final
\* outcome that is Success, AlreadySubmittedToday, or a failed-class outcome of
\* its max_retries-th attempt.
C4_EveryWalletOneTerminalOutcome ==
    pc \in {"done", "raised"} =>
        \A i \in WalletIndices :
            LET r == ResultsOf(i)
            IN  /\ Len(r) >= 1
                /\ \/ r[Len(r)].status \in NonRetryStatuses
                   \/ /\ r[Len(r)].status \in FailedClass
                      /\ Len(r) = config.max_retries

\* C5: with at least one attempt allowed per wallet, the run eventually reaches
\* the end of the wallet list and writes the summary, whatever the outcomes of
\* the attempts.
C5_RunReachesSummary == (config.max_retries >= 1) => <>(pc = "done")

\* C6: when the queried balance is below the threshold, send_gm_transaction
\* returns (false, InsufficientBalance, message) having made no chain call other
\* than the balance query.
C6_LowBalanceReturnsWithoutTransaction ==
    (balance_eth # NoBalance /\ balance_eth[1] < MinBalanceGwei) =>
        /\ pc \in {"balance_test", "returned"}
        /\ calls = {"get_balance"}
        /\ pc = "returned" =>
              /\ ret[1] = FALSE
              /\ ret[2] = INSUFFICIENT_BALANCE
              /\ ret[3] = BalanceMsg(balance_eth[1])

C6_Witness ==
    /\ pc = "returned"
    /\ balance_eth = <<MinBalanceGwei - 1>>
    /\ attempt = 2

\* C7: when the balance lookup fails, send_gm_transaction returns
\* (false, InsufficientBalance, message) and attempts no transaction.
C7_BalanceUnavailableIsInsufficient ==
    (pc = "returned" /\ "get_balance" \in calls /\ balance_eth = NoBalance) =>
        /\ ret[1] = FALSE
        /\ ret[2] = INSUFFICIENT_BALANCE
        /\ calls = {"get_balance"}

\* C8: no exception raised in steps 1-8 of send_gm_transaction escapes it.
C8_NoExceptionEscapesSend == ~(pc = "raised" /\ raised = "InvalidAddress")

\* the outcome a word of Words calls for, by the keyword it holds when letter
\* case is ignored
WordOutcome(w) ==
    IF w = <<"I", "n", "s", "u", "f", "f", "i", "c", "i", "e", "n", "t", " ", "f", "u", "n", "d", "s">> THEN INSUFFICIENT_BALANCE
    ELSE IF w \in { <<"A", "L", "R", "E", "A", "D", "Y">>, <<"a", "W", "a", "i", "t">> } THEN ALREADY_GMED
    ELSE IF w = <<" ", "T", "i", "m", "e", "O", "u", "t">> THEN TIMEOUT
    ELSE FAILED

\* the outcome of a text made of the words ws: the first of InsufficientBalance,
\* AlreadySubmittedToday, Timeout that one of its words calls for, else Failed
ExpectedOutcome(ws) ==
    LET has(o) == \E n \in 1..Len(ws) : WordOutcome(ws[n]) = o
    IN  IF has(INSUFFICIENT_BALANCE) THEN INSUFFICIENT_BALANCE
        ELSE IF has(ALREADY_GMED) THEN ALREADY_GMED
        ELSE IF has(TIMEOUT) THEN TIMEOUT
        ELSE FAILED

\* C9: the classifier gives every exception text one outcome, the first that
\* applies of InsufficientBalance ("insufficient funds"), AlreadySubmittedToday
\* ("already" or "wait"), Timeout ("timeout"), else Failed, letter case ignored;
\* success is false and the message is the text unchanged.
C9_ClassifierFirstMatch ==
    cret # NoValue =>
        /\ cret[1] = FALSE
        /\ cret[3] = cmsg
        /\ \A ws \in SeqsUpTo(Words, MaxWords) :
              Concat(ws) = cmsg => cret[2] = ExpectedOutcome(ws)

C9_Witness ==
    /\ cret # NoValue
    /\ cmsg = <<" ", "T", "i", "m", "e", "O", "u", "t">> \o <<"a", "W", "a", "i", "t">>
    /\ cret[2] = ALREADY_GMED

\* number of Success results logged for the wallet entry at index i
SuccessCountOf(i) ==
    Cardinality({ k \in PositionsOf(i) : results[k].status = SUCCESS })

\* C10: when a receipt has arrived, send_gm_transaction returns
\* (true, Success, tx id) for status 1 and (false, Failed, reverted + tx id)
\* otherwise, and run logs that return as one AttemptResult, the only Success
\* of the wallet entry when the status is 1.
C10_ReceiptClassified ==
    [][ (pc = "returned" /\ receipt # NoValue) =>
            /\ "send_raw_transaction" \in calls
            /\ balance_eth[1] >= MinBalanceGwei
            /\ ret = IF receipt[1] = 1
                     THEN <<TRUE, SUCCESS, <<"TX: ", tx_hash_hex>> >>
                     ELSE <<FALSE, FAILED, <<"reverted. TX: ", tx_hash_hex>> >>
            /\ results' = Append(results, [address |-> address, attempt |-> attempt,
                                           status |-> ret[2], message |-> ret[3]])
            /\ receipt[1] = 1 => SuccessCountOf(index)' = 1 ]_vars

C10_Witness ==
    /\ pc = "done"
    /\ \E k \in 1..Len(results) : results[k].status = SUCCESS /\ results[k].attempt = 2
    /\ \E k \in 1..Len(results) :
          results[k].status = FAILED /\ Len(results[k].message) = 2

-----------------------------------------------------------------------------
(* Gas price policy *)

\* C11: for every network price, ceiling and multiplier, the effective gas price
\* is floor(min(price, ceiling) * multiplier); it is at most ceiling * multiplier,
\* and it is floor(price * multiplier) when the price is within the ceiling
C11_EffectiveGasPriceIsFloor ==
    gas_out # NoValue =>
        LET num == gas_in.multiplier[1]
            den == gas_in.multiplier[2]
            capped == IF gas_in.price <= gas_in.ceiling THEN gas_in.price
                      ELSE gas_in.ceiling
        IN  /\ gas_out[1] = (capped * num) \div den
            /\ gas_out[1] * den <= gas_in.ceiling * num
            /\ gas_in.price <= gas_in.ceiling => gas_out[1] = (gas_in.price * num) \div den

-----------------------------------------------------------------------------
(* A run over wallets A, B, C with two attempts each *)

\* every attempt of A succeeds, B times out at attempt 1 and succeeds afterwards,
\* every attempt of C ends in InsufficientBalance
ScenarioOutcomes ==
    /\ config.wallets = <<WalletA, WalletB, WalletC>>
    /\ config.max_retries = 2
    /\ \A k \in 1..Len(results) :
          /\ results[k].address = WalletA.address => results[k].status = SUCCESS
          /\ results[k].address = WalletB.address =>
                results[k].status = IF results[k].attempt = 1 THEN TIMEOUT ELSE SUCCESS
          /\ results[k].address = WalletC.address =>
                results[k].status = INSUFFICIENT_BALANCE

\* the log the scenario is expected to produce: entry (wallet, attempt, status)
ScenarioLog ==
    << <<WalletA.address, 1, SUCCESS>>, <<WalletB.address, 1, TIMEOUT>>,
       <<WalletB.address, 2, SUCCESS>>, <<WalletC.address, 1, INSUFFICIENT_BALANCE>>,
       <<WalletC.address, 2, INSUFFICIENT_BALANCE>> >>

\* C12: with wallets [A, B, C] and max_retries = 2, when A succeeds at attempt 1, B
\* times out and then succeeds, and C has an insufficient balance twice, the log is
\* exactly A#1, B#1, B#2, C#1, C#2, failed_wallets is [C], and the summary is
\* total 3, successful 2, already submitted 0, failed 1
C12_ScenarioSummary ==
    ScenarioOutcomes =>
        /\ Len(results) <= Len(ScenarioLog)
        /\ \A k \in 1..Len(results) :
              <<results[k].address, results[k].attempt, results[k].status>> = ScenarioLog[k]
        /\ pc = "done" =>
              /\ Len(results) = Len(ScenarioLog)
              /\ Len(failed_wallets) = 1
              /\ failed_wallets[1].address = WalletC.address
              /\ failed_wallets[1].last_status = INSUFFICIENT_BALANCE
              /\ summary = [total |-> 3, successful |-> 2, already_gmed |-> 0,
                            failed |-> 1]

C12_Witness ==
    /\ pc = "done"
    /\ ScenarioOutcomes
    /\ Len(results) = 5
    /\ summary.failed = 1

-----------------------------------------------------------------------------
(* Sleeps of the run *)

IsWalletSleep(s) == s # NoValue /\ s.kind = "wallet"

IsRetrySleep(s) == s # NoValue /\ s.kind = "retry"

\* C13: with the inter-wallet delay enabled, run sleeps once before the first
\* attempt of every wallet of index > 0, for a duration within [min, max] (min itself
\* when min = max), whatever the previous wallet's outcome; it never sleeps so
\* before the wallet of index 0, between attempts of one wallet, or when the delay
\* is disabled
C13_InterWalletDelay ==
    [][ LET d == config.delay_between_wallets
        IN  /\ index' # index =>
                 /\ index' = index + 1
                 /\ attempt' = 0
                 /\ IF d.enabled /\ index' > 0
                    THEN /\ IsWalletSleep(slept')
                         /\ slept'.seconds \in d.min_seconds..d.max_seconds
                         /\ d.min_seconds = d.max_seconds => slept'.seconds = d.min_seconds
                    ELSE slept' = NoValue
            /\ index' = index => (IsWalletSleep(slept') => slept' = slept)
            /\ IsWalletSleep(slept) =>
                 /\ pc = "for_attempt" /\ attempt = 0 /\ index > 0 /\ d.enabled
                 /\ slept' = NoValue /\ (pc' = "send" => attempt' = 1)
      ]_vars

C13_Witness ==
    /\ IsWalletSleep(slept)
    /\ slept.seconds = 3
    /\ index = 2
    /\ Len(failed_wallets) = 1
    /\ results[Len(results)].status = SUCCESS

\* C14: the retry wait happens only between consecutive attempts of one wallet:
\* after attempt n with a retryable outcome and n < max_retries, run sleeps
\* retry_delay seconds, the same for every n, and then makes attempt n + 1; after
\* attempt max_retries, or a non-retry outcome, it does not sleep
C14_RetryDelay ==
    [][ /\ Len(results') = Len(results) + 1 =>
             LET r == results'[Len(results')]
             IN  IF r.status \notin NonRetryStatuses /\ r.attempt < config.max_retries
                 THEN /\ slept' = [kind |-> "retry", seconds |-> config.retry_delay]
                      /\ pc' = "for_attempt"
                 ELSE ~IsRetrySleep(slept')
        /\ Len(results') = Len(results) => (IsRetrySleep(slept') => slept' = slept)
        /\ IsRetrySleep(slept) =>
             /\ pc = "for_attempt" /\ attempt = results[Len(results)].attempt
             /\ attempt < config.max_retries
             /\ slept' = NoValue /\ pc' = "send"
             /\ attempt' = attempt + 1 /\ index' = index
      ]_vars

C14_Witness ==
    /\ IsRetrySleep(slept)
    /\ attempt = 2
    /\ slept.seconds = config.retry_delay
    /\ results[Len(results)].status = TIMEOUT

-----------------------------------------------------------------------------
(* Order of the wallets *)

\* the wallet entry at index i has its last result: a non-retry outcome, or the
\* result of attempt max_retries
ReachedTerminalOutcome(i) ==
    /\ PositionsOf(i) # {}
    /\ LET last == FinalResult(i)
       IN  last.status \in NonRetryStatuses \/ last.attempt = config.max_retries

\* C15: wallets are processed one after another in configuration order: in the
\* log every result of wallet i precedes every result of wallet j for i < j, and
\* no attempt for wallet j starts before wallet i has its terminal outcome
C15_WalletsInConfigOrder ==
    /\ \A k \in 1..Len(results) :
          /\ results[k].address = config.wallets[result_index[k] + 1].address
          /\ result_index[k] <= index
          /\ \A l \in (k + 1)..Len(results) : result_index[k] <= result_index[l]
    /\ \A i \in WalletIndices : i < index => ReachedTerminalOutcome(i)

C15_Witness ==
    /\ pc = "send"
    /\ index = 2
    /\ Cardinality(PositionsOf(0)) = 2
    /\ Cardinality(PositionsOf(1)) = 1

-----------------------------------------------------------------------------
(* The confirmation wait *)

\* C16: when the confirmation wait elapses its 120 seconds without a receipt, the
\* attempt's outcome is Timeout (not Failed, not AlreadySubmittedToday); the wait is
\* not repeated within the attempt
C16_WaitTimeoutIsTimeout ==
    exc = TimeExhaustedMsg =>
        /\ pc \in {"except", "returned"}
        /\ "wait_for_transaction_receipt" \in calls
        /\ pc = "returned" => ret = <<FALSE, TIMEOUT, TimeExhaustedMsg>>

-----------------------------------------------------------------------------
(* Gas limit *)

\* C17: a failed gas estimation does not fail the attempt: estimate_gas then returns
\* 100000 and the transaction is signed and broadcast with that limit; an estimate g
\* gives the limit floor(g * 1.2), which replaces the placeholder limit
C17_GasEstimateFallback ==
    [][ /\ pc = "estimate" =>
             /\ pc' = "sign"
             /\ faults' = faults
             /\ transaction'[1].gas =
                   IF gas_estimate' = NoValue THEN 100000
                   ELSE (gas_estimate'[1] * 12) \div 10
             /\ transaction'[1].gasPrice = transaction[1].gasPrice
        /\ (pc \in {"sign", "broadcast"} /\ pc' \in {"broadcast", "wait"}) =>
             /\ transaction' = transaction
             /\ gas_estimate' = gas_estimate
      ]_vars

C17_Witness ==
    /\ pc = "wait"
    /\ "send_raw_transaction" \in calls
    /\ gas_estimate = NoValue
    /\ transaction[1].gas = DefaultGas

-----------------------------------------------------------------------------
(* The failed-wallets file *)

\* the records the failed-wallets file is meant to hold: for every wallet entry
\* whose final outcome is in the failed class, in list order, that entry's
\* address, private key and proxy with its last error and status
RECURSIVE FailedEntries(_)
FailedEntries(n) ==
    IF n = 0 THEN <<>>
    ELSE LET final == FinalResult(n - 1)
         IN  IF final.status \in FailedClass
             THEN Append(FailedEntries(n - 1),
                         [address |-> config.wallets[n].address,
                          private_key |-> config.wallets[n].private_key,
                          proxy |-> config.wallets[n].proxy,
                          last_error |-> final.message,
                          last_status |-> final.status])
             ELSE FailedEntries(n - 1)

\* C18: the failed-wallets file holds, in the order of failed_wallets, every failed
\* record with the private key and proxy of the wallet entry that failed, and its
\* count is the number of its entries, also when two entries of the wallet list
\* have the same address up to letter case
C18_FailedFileEnriched ==
    (pc = "done" /\ failed_wallets # <<>>) =>
        /\ failed_data.count = Len(failed_data.wallets)
        /\ failed_data.wallets = FailedEntries(Len(config.wallets))

-----------------------------------------------------------------------------
(* One broadcast and one wait per attempt *)

\* position of a step of send_gm_transaction in its text
PcRank(p) ==
    CASE p = "send" -> 1
      [] p = "check_balance" -> 2
      [] p = "balance_test" -> 3
      [] p = "can_gm" -> 4
      [] p = "nonce" -> 5
      [] p = "gas_price" -> 6
      [] p = "build" -> 7
      [] p = "estimate" -> 8
      [] p = "sign" -> 9
      [] p = "broadcast" -> 10
      [] p = "wait" -> 11
      [] p = "except" -> 12
      [] p = "returned" -> 13
      [] OTHER -> 0

\* C19: one call of send_gm_transaction makes at most one broadcast and at most
\* one receipt wait and never goes back to an earlier step; every call belongs to
\* one attempt of one wallet, and Success is returned only after a broadcast and a
\* receipt of status 1 in that call
C19_OneBroadcastPerAttempt ==
    [][ /\ pc = "broadcast" => "send_raw_transaction" \notin calls
        /\ pc = "wait" => /\ "send_raw_transaction" \in calls
                          /\ "wait_for_transaction_receipt" \notin calls
        /\ pc = "send" => calls = {}
        /\ PcRank(pc) > 0 =>
             /\ PcRank(pc') = 0 \/ PcRank(pc') > PcRank(pc)
             /\ PcRank(pc') > 0 => (attempt' = attempt /\ index' = index)
             /\ PcRank(pc') = 0 => (pc = "returned" \/ pc' = "raised")
        /\ "send_raw_transaction" \in calls' =>
             ("send_raw_transaction" \in calls \/ pc = "broadcast")
        /\ "wait_for_transaction_receipt" \in calls' =>
             ("wait_for_transaction_receipt" \in calls \/ pc = "wait")
        /\ (pc' = "returned" /\ ret'[1]) =>
             /\ ret'[2] = SUCCESS
             /\ {"send_raw_transaction", "wait_for_transaction_receipt"} \subseteq calls'
             /\ receipt' = <<1>>
      ]_vars

C19_Witness ==
    /\ pc = "returned"
    /\ ret[1]
    /\ attempt = 2
    /\ calls = {"get_balance", "get_transaction_count", "gas_price", "build_transaction",
                "estimate_gas", "sign_transaction", "send_raw_transaction",
                "wait_for_transaction_receipt"}

-----------------------------------------------------------------------------
(* What a run leaves alone *)

\* C20: no step of run changes the config, in particular its wallet list, and the
\* results log is append-only: every step keeps the entries already logged, in
\* their order, and adds at most one entry at the end
C20_ConfigReadOnlyLogAppendOnly ==
    [][ /\ config' = config
        /\ config'.wallets = config.wallets
        /\ Len(results') >= Len(results)
        /\ Len(results') <= Len(results) + 1
        /\ \A k \in 1..Len(results) : results'[k] = results[k]
      ]_vars

C20_Witness ==
    /\ pc = "returned"
    /\ Len(results) = 3
    /\ Len(config.wallets) = 2

-----------------------------------------------------------------------------
(* The summary as a partition of the wallets *)

\* number of results of status st logged for the wallet entry at index i
StatusCountOf(i, st) == Cardinality({ k \in PositionsOf(i) : results[k].status = st })

\* 1 when the final outcome of the wallet entry at index i is a failure, else 0
FailedCountOf(i) == IF FinalResult(i).status \in NonRetryStatuses THEN 0 ELSE 1

RECURSIVE SumOver(_, _)
SumOver(f, n) == IF n = 0 THEN 0 ELSE f[n - 1] + SumOver(f, n - 1)

\* C21: in the summary of a finished run, successful + already_gmed + failed =
\* total = number of configured wallets, and every wallet entry counts in exactly
\* one of the three: one Success result, or one AlreadySubmittedToday result, or
\* one record of failed_wallets
C21_SummaryPartitionsWallets ==
    summary # NoValue =>
        LET n == Len(config.wallets)
            s == [i \in WalletIndices |-> StatusCountOf(i, SUCCESS)]
            a == [i \in WalletIndices |-> StatusCountOf(i, ALREADY_GMED)]
            f == [i \in WalletIndices |-> FailedCountOf(i)]
        IN  /\ summary.total = n
            /\ summary.successful + summary.already_gmed + summary.failed = summary.total
            /\ \A i \in WalletIndices : s[i] + a[i] + f[i] = 1
            /\ summary.successful = SumOver(s, n)
            /\ summary.already_gmed = SumOver(a, n)
            /\ summary.failed = SumOver(f, n)
            /\ summary.failed = Len(failed_wallets)

C21_Witness ==
    /\ pc = "done"
    /\ summary.total = 2
    /\ summary.successful = 1
    /\ summary.failed = 1
    /\ Len(results) = 3

-----------------------------------------------------------------------------
(* Sources of AlreadySubmittedToday *)

\* the steps of send_gm_transaction whose exceptions reach the handler with a
\* text of the chain client
RaisingSteps == {"nonce", "gas_price", "build", "sign", "broadcast", "wait"}

\* C22: the eligibility pre-check always reports eligible; send_gm_transaction
\* returns AlreadySubmittedToday only for an exception raised at the nonce,
\* gas-price, build, sign, broadcast or receipt-wait step whose text holds
\* "already" or "wait" and not "insufficient funds"; a receipt of status other than
\* 1 gives Failed; NetworkError and InvalidContract are never returned
C22_AlreadySubmittedOnlyFromExceptions ==
    [][ /\ pc = "can_gm" => (pc' = "nonce" /\ ret' = ret)
        /\ (pc' = "except" /\ pc # "except") =>
             \/ pc \in RaisingSteps /\ balance_eth # NoBalance
             \/ pc = "balance_test" /\ balance_eth = NoBalance
        /\ (pc' = "returned" /\ pc # "returned") =>
             /\ ret'[2] \notin {NETWORK_ERROR, INVALID_CONTRACT}
             /\ ret'[2] = ALREADY_GMED =>
                  /\ pc = "except"
                  /\ balance_eth # NoBalance
                  /\ "get_transaction_count" \in calls
                  /\ receipt' = NoValue
                  /\ ret'[3] = exc
                  /\ LET text == Lower(exc)
                     IN  /\ Contains(text, KW_already) \/ Contains(text, KW_wait)
                         /\ ~Contains(text, KW_insufficient_funds)
             /\ (receipt' # NoValue /\ receipt'[1] # 1) =>
                  (ret'[1] = FALSE /\ ret'[2] = FAILED)
      ]_vars

C22_Witness ==
    /\ pc = "returned"
    /\ ret[2] = ALREADY_GMED
    /\ "send_raw_transaction" \in calls
    /\ "wait_for_transaction_receipt" \notin calls

====
